---- MODULE Spec2Model ----
(***************************************************************************)
(* A model of the MyData service's repositories.                           *)
(*                                                                         *)
(*   - the namespaced file store, src/src/repository/fs-repository.js:     *)
(*     every operation loads the namespace's JSON file, changes the loaded *)
(*     copy and rewrites the whole file;                                   *)
(*   - the document store, src/src/repository/mongo-repository.js.         *)
(*                                                                         *)
(* JavaScript values are modelled with a tag: <<"num", n>>, <<"str", s>>,  *)
(* <<"bool", b>>, <<"arr", S>>, <<"null">>, <<"undefined">>.  A string is  *)
(* the sequence of its UTF-16 code units, so that the relational operator  *)
(* on two strings is the lexicographic order the language defines.         *)
(***************************************************************************)
EXTENDS Integers, Sequences, FiniteSets, TLC

VARIABLES
    files,      \* fs-repository: file path -> the file (absent, or its JSON text)
    calls,      \* fs-repository: the calls made, in the order they were made
    issued,     \* fs-repository: namespace -> identifiers create has called back with, in order
    started,    \* fs-repository: number of calls made so far
    mongo,      \* the database: namespace -> the collection's documents by _id
    mcalls,     \* mongo-repository: the calls made, in the order they were made
    generated,  \* number of ObjectIDs the driver has generated
    archive,    \* fs-data-archive: the object's ready, dataset, idCursor, and its file
    acalls,     \* fs-data-archive: the calls made, in the order they were made
    config      \* the configuration modules: environment, cors files, exports loaded

fsVars == <<files, calls, issued, started>>
mongoVars == <<mongo, mcalls, generated>>
archiveVars == <<archive, acalls>>
configVars == <<config>>
vars == <<fsVars, mongoVars, archiveVars, configVars>>

(***************************************************************************)
(* Bounds of the model.                                                    *)
(***************************************************************************)
MaxCalls == 3       \* calls made in a run where calls may overlap
MaxSeqCalls == 4    \* calls made in a run where each call ends before the next
MaxCreates == 11    \* creates made in a run of creates only
MaxMongoCalls == 3  \* calls made on the document store
MaxArchiveCalls == 2  \* calls made on the caching file store
MaxNsCalls == 2     \* calls made in a run over two namespaces
MaxAssignedCalls == 3  \* calls made in a run of creates and updates with chosen identifiers

(***************************************************************************)
(* JavaScript values.                                                      *)
(***************************************************************************)
NaN == 0 - 1        \* the only number of the model that is not a natural

Num(n) == <<"num", n>>
StrV(s) == <<"str", s>>
Bool(b) == <<"bool", b>>
Arr(S) == <<"arr", S>>
JNull == <<"null">>
Undefined == <<"undefined">>
IOError == <<"error", "EIO">>

IsDigit(c) == c >= 48 /\ c <= 57

RECURSIVE DecimalDigits(_)
DecimalDigits(n) ==
    IF n < 10 THEN <<48 + n>> ELSE DecimalDigits(n \div 10) \o <<48 + (n % 10)>>

\* String(n), the conversion a number undergoes when it is used as a property key
NumberToString(n) == IF n = NaN THEN <<78, 97, 78>> ELSE DecimalDigits(n)

RECURSIVE ParseDigits(_, _, _)
ParseDigits(s, i, acc) ==
    IF i > Len(s) \/ ~IsDigit(s[i])
    THEN acc
    ELSE ParseDigits(s, i + 1, 10 * acc + (s[i] - 48))

\* parseInt(s): the value of the leading run of decimal digits, NaN without one
ParseInt(s) ==
    IF Len(s) = 0 \/ ~IsDigit(s[1]) THEN NaN ELSE ParseDigits(s, 1, 0)

\* a > b on two strings: lexicographic comparison of code units
StringGreater(a, b) ==
    \E i \in 1..Len(a) :
        /\ \A j \in 1..(i - 1) : j <= Len(b) /\ a[j] = b[j]
        /\ (i > Len(b) \/ a[i] > b[i])

\* ++n
Increment(n) == IF n = NaN THEN NaN ELSE n + 1

\* the property key a value used as an index is converted to
ToPropertyKey(v) ==
    CASE v[1] = "num" -> NumberToString(v[2])
      [] v[1] = "str" -> v[2]
      [] v[1] = "null" -> <<110, 117, 108, 108>>
      [] OTHER -> <<117, 110, 100, 101, 102, 105, 110, 101, 100>>

(***************************************************************************)
(* Inputs.                                                                 *)
(***************************************************************************)
Namespaces == {"orders", "users"}

\* the namespace the calls of Spec, SpecSeq and SpecCreate are made on
Called == {"orders"}

Constructor == <<99, 111, 110, 115, 116, 114, 117, 99, 116, 111, 114>>
ToStringName == <<116, 111, 83, 116, 114, 105, 110, 103>>

\* names every object inherits from Object.prototype (those the inputs can name)
ObjectPrototypeNames == {Constructor, ToStringName}

\* identifiers a caller passes to update and delete (request path parameters)
Ids == {NumberToString(1), NumberToString(2), Constructor}

\* request bodies
Pen == [item |-> "pen", qty |-> 2]
Pencil == [item |-> "pencil"]
Bodies == {Pen, Pencil}

NoId == <<>>
NoData == [f \in {} |-> 0]

(***************************************************************************)
(* Datasets: objects whose own property keys are identifiers.              *)
(***************************************************************************)
EmptyDataset == [k \in {} |-> 0]

idField == "_id"

HasOwnProperty(dataset, id) == ToPropertyKey(id) \in DOMAIN dataset

\* the in operator: own properties and those inherited from Object.prototype
In(id, dataset) ==
    ToPropertyKey(id) \in (DOMAIN dataset \cup ObjectPrototypeNames)

ObjectValues(dataset) == {dataset[k] : k \in DOMAIN dataset}

\* data[idField] = id
SetIdField(data, id) ==
    [f \in (DOMAIN data \cup {idField}) |-> IF f = idField THEN id ELSE data[f]]

\* dataset[id] = data
SetProperty(dataset, id, data) ==
    [k \in (DOMAIN dataset \cup {ToPropertyKey(id)}) |->
        IF k = ToPropertyKey(id) THEN data ELSE dataset[k]]

\* delete dataset[id]
DeleteProperty(dataset, id) ==
    [k \in (DOMAIN dataset \ {ToPropertyKey(id)}) |-> dataset[k]]

\* Object.keys(dataset).reduce((acc, cur) => cur > acc ? cur : acc, "0"): the
\* fold keeps the greatest string seen, so its result is the same for every
\* order of the keys
ReduceMaxKey(dataset) ==
    LET keys == DOMAIN dataset \cup {NumberToString(0)}
    IN  CHOOSE m \in keys : \A k \in keys : ~StringGreater(k, m)

\* create's identifier: ++idCursor
NextIdCursor(dataset) == Increment(ParseInt(ReduceMaxKey(dataset)))

\* a created flag taken with the in operator, as remove tests presence
InsertCreatedByIn(dataset, id) == ~In(id, dataset)

\* insert's created flag
InsertCreated(dataset, id) == ~HasOwnProperty(dataset, id)

\* an insert that, like create, stores under the next identifier when the
\* identifier already has a record
InsertUnderNextKey(dataset, id, data) ==
    IF HasOwnProperty(dataset, id)
    THEN SetProperty(dataset, Num(NextIdCursor(dataset)), SetIdField(data, id))
    ELSE SetProperty(dataset, id, SetIdField(data, id))

\* insert's change of the dataset
InsertDataset(dataset, id, data) ==
    SetProperty(dataset, id, SetIdField(data, id))

(***************************************************************************)
(* JSON text of a dataset.  JSON.stringify writes a NaN as null.           *)
(***************************************************************************)
JsonValue(v) == IF v = Num(NaN) THEN JNull ELSE v

JsonObject(obj) ==
    [f \in DOMAIN obj |-> IF f = idField THEN JsonValue(obj[f]) ELSE obj[f]]

JSONStringify(dataset) ==
    <<"json", [k \in DOMAIN dataset |-> JsonObject(dataset[k])]>>

JSONParse(text) == text[2]

NoFile == [exists |-> FALSE, text |-> <<>>]
FileWith(text) == [exists |-> TRUE, text |-> text]

\* one file for all namespaces, as fs-data-archive has
archiveFileShared(namespace) == "data.json"

\* the path of a namespace's file, under the data directory
archiveFile(namespace) == namespace \o ".json"

ArchiveFiles == {archiveFile(ns) : ns \in Namespaces}

(***************************************************************************)
(* fs-data-archive: one object that caches the dataset of one file.        *)
(***************************************************************************)
\* a property that holds undefined (a tag no request body has)
UndefinedProperty == [undefined |-> TRUE]

\* dataset.dataId: the property named by the literal key "dataId"
DataIdKey == <<100, 97, 116, 97, 73, 100>>
GetDataId(dataset) ==
    IF DataIdKey \in DOMAIN dataset THEN dataset[DataIdKey] ELSE UndefinedProperty

\* the number a value is converted to by > and ++
ToNumber(v) ==
    CASE v[1] = "num" -> v[2]
      [] v[1] = "str" ->
            IF Len(v[2]) = 0 THEN 0
            ELSE IF \A i \in 1..Len(v[2]) : IsDigit(v[2][i])
                 THEN ParseDigits(v[2], 1, 0) ELSE NaN
      [] OTHER -> NaN

\* a > b: two strings compare as strings, all else as numbers
Greater(a, b) ==
    IF a[1] = "str" /\ b[1] = "str"
    THEN StringGreater(a[2], b[2])
    ELSE /\ ToNumber(a) # NaN /\ ToNumber(b) # NaN
         /\ ToNumber(a) > ToNumber(b)

\* data["id"] = id
SetId(data, id) ==
    [f \in (DOMAIN data \cup {"id"}) |-> IF f = "id" THEN id ELSE data[f]]

\* JSON.stringify(this.dataset): a property holding undefined is left out
ArchiveStringify(dataset) ==
    <<"json",
      [k \in {key \in DOMAIN dataset : dataset[key] # UndefinedProperty} |->
          [f \in DOMAIN dataset[k] |->
              IF f = "id" THEN JsonValue(dataset[k][f]) ELSE dataset[k][f]]]>>

\* init(dataset): the dataset and the cursor taken from its keys
init(obj, dataset) ==
    [obj EXCEPT !.dataset = dataset,
                !.idCursor = Num(ParseInt(ReduceMaxKey(dataset)))]

\* the object when the constructor returns: ready is false, init({}) has run
\* and loadData is under way (without a file its promise is resolved with {},
\* with a file fs.readFile is pending); "ready" is emitted by a later job
Constructed(file) ==
    init([ready |-> FALSE, dataset |-> EmptyDataset,
          idCursor |-> Num(0), file |-> file], EmptyDataset)

(***************************************************************************)
(* The configuration modules.  process.env is a function from the names of *)
(* the variables that are set to their values; dirs is the set of          *)
(* directories that hold a file named cors.                                *)
(***************************************************************************)
EnvValue ==
    [REPOSITORY |-> "fs-repository", HOST |-> "myTestHost", PORT |-> "4243",
     CONFIG_PATH |-> "/test", MONGO_HOST |-> "myMongoDbHost",
     MONGO_PORT |-> "1111", DB_NAME |-> "TestDb",
     MONGO_URL |-> "myMongoDbHost:1111"]

EnvNames == DOMAIN EnvValue

NoEnv == [n \in {} |-> ""]

Environments == {[n \in S |-> EnvValue[n]] : S \in SUBSET EnvNames}

\* process.env.NAME || default
OrDefault(env, name, default) ==
    IF name \in DOMAIN env /\ env[name] # "" THEN env[name] ELSE default

CorsContent == "DELETE,POST,GET"

\* corsConfig, the function server.js exports as getCors
corsConfig(env, dirs) ==
    IF OrDefault(env, "CONFIG_PATH", "/etc/config") \in dirs
    THEN CorsContent
    ELSE "GET,POST,PUT,DELETE"

\* the object of the first assignment to module.exports in server.js
ServerExports(env) ==
    [repository |-> OrDefault(env, "REPOSITORY", "mongo-repository"),
     host |-> OrDefault(env, "HOST", "localhost"),
     port |-> OrDefault(env, "PORT", 4242),
     configPath |-> OrDefault(env, "CONFIG_PATH", "/etc/config"),
     getCors |-> "corsConfig"]

\* the object of the second assignment to module.exports in server.js
MongoExports(env) ==
    [location |-> "mongodb://" \o OrDefault(env, "MONGO_HOST", "localhost")
                     \o ":" \o OrDefault(env, "MONGO_PORT", "27017"),
     dbName |-> OrDefault(env, "DB_NAME", "MyData")]

\* the document store configuration that reads MONGO_URL
MongoUrlExports(env) ==
    [location |-> "mongodb://" \o OrDefault(env, "MONGO_URL", "localhost:27017"),
     dbName |-> OrDefault(env, "DB_NAME", "MyData")]

\* what require returns for a module that assigns module.exports in turn:
\* the object assigned last
Require(assignments) == assignments[Len(assignments)]

\* server.js assigns module.exports twice
RequireServerJs(env) == Require(<<ServerExports(env), MongoExports(env)>>)

NotLoaded == [f \in {} |-> ""]
NotCalled == "not called"
TypeError == "TypeError: getCors is not a function"

\* a process before any module is loaded
Installed(env, dirs) ==
    [env |-> env, dirs |-> dirs, server |-> NotLoaded, mongo |-> NotLoaded,
     cors |-> NotCalled]

(***************************************************************************)
(* fs-repository: one call.                                                *)
(*   pc "reading": fs.readFile is pending;  "writing": fs.writeFile is     *)
(*   pending; "delay": the save's timer is pending; "done": the callback   *)
(*   was invoked with err and val; "hung": the call ended without invoking *)
(*   its callback.  ticker: the interval save set is still scheduled.      *)
(***************************************************************************)
Finished(c) == c.pc \in {"done", "hung"}

Mutating(c) == c.op \in {"create", "update", "delete"}

\* the dataset a mutating call hands to save, given the dataset it loaded
Saved(c, dataset) ==
    CASE c.op = "create" ->
            InsertDataset(dataset, Num(NextIdCursor(dataset)), c.data)
      [] c.op = "update" -> InsertDataset(dataset, StrV(c.id), c.data)
      [] c.op = "delete" -> DeleteProperty(dataset, StrV(c.id))

\* the callback of getDataset, run with the dataset loaded
Apply(c, dataset) ==
    CASE c.op = "read" ->
            [c EXCEPT !.pc = "done", !.loaded = dataset,
                      !.val = Arr(ObjectValues(dataset))]
      [] c.op = "create" ->
            LET idCursor == NextIdCursor(dataset)
            IN  [c EXCEPT !.pc = "writing", !.loaded = dataset,
                          !.text = JSONStringify(Saved(c, dataset)),
                          !.res = Num(idCursor), !.ticker = TRUE]
      [] c.op = "update" ->
            [c EXCEPT !.pc = "writing", !.loaded = dataset,
                      !.text = JSONStringify(Saved(c, dataset)),
                      !.res = Bool(InsertCreated(dataset, StrV(c.id))),
                      !.ticker = TRUE]
      [] c.op = "delete" ->
            IF In(StrV(c.id), dataset)
            THEN [c EXCEPT !.pc = "writing", !.loaded = dataset,
                           !.text = JSONStringify(Saved(c, dataset)),
                           !.res = Bool(TRUE), !.ticker = TRUE]
            ELSE [c EXCEPT !.pc = "done", !.loaded = dataset,
                           !.val = Bool(FALSE)]

\* loadData without the existsSync test: every call waits for fs.readFile
NewCallWithoutExistsCheck(op, ns, id, data, hist) ==
    [op |-> op, ns |-> ns, id |-> id, data |-> data,
     pc |-> "reading", loaded |-> EmptyDataset, text |-> <<>>,
     res |-> Undefined, err |-> JNull, val |-> Undefined,
     pred |-> {i \in 1..Len(hist) : Finished(hist[i])},
     file0 |-> files[archiveFile(ns)], wrote |-> FALSE, ticker |-> FALSE]

\* loadData up to its first asynchronous step: without a file the dataset is
\* empty and getDataset's callback runs before any other event
NewCall(op, ns, id, data, hist) ==
    LET c == [op |-> op, ns |-> ns, id |-> id, data |-> data,
              pc |-> "reading", loaded |-> EmptyDataset, text |-> <<>>,
              res |-> Undefined, err |-> JNull, val |-> Undefined,
              pred |-> {i \in 1..Len(hist) : Finished(hist[i])},
              file0 |-> files[archiveFile(ns)], wrote |-> FALSE, ticker |-> FALSE]
    IN  IF files[archiveFile(ns)].exists THEN c ELSE Apply(c, EmptyDataset)

Begin(op, ns, id, data, hist) ==
    /\ calls' = Append(hist, NewCall(op, ns, id, data, hist))
    /\ started' = started + 1
    /\ UNCHANGED <<files, issued, mongoVars, archiveVars, configVars>>

\* overlapping calls: every call made stays in calls
Overlapped == Len(calls) < MaxCalls

\* calls one after another: only the call before the new one is kept
AllFinished == \A i \in 1..Len(calls) : Finished(calls[i])
Previous == IF Len(calls) = 0 THEN <<>> ELSE <<calls[Len(calls)]>>

List(ns, hist) == Begin("read", ns, NoId, NoData, hist)
Create(ns, data, hist) == Begin("create", ns, NoId, data, hist)
Update(ns, id, data, hist) == Begin("update", ns, id, data, hist)
Remove(ns, id, hist) == Begin("delete", ns, id, NoData, hist)

\* fs.readFile completes and the text parses
ReadFileOk(i) ==
    /\ calls[i].pc = "reading"
    /\ calls' = [calls EXCEPT
                    ![i] = Apply(@, JSONParse(files[archiveFile(calls[i].ns)].text))]
    /\ UNCHANGED <<files, issued, started, mongoVars, archiveVars, configVars>>

\* fs.readFile fails: loadData rejects, and getDataset's catch block reads
\* the variable dataset, which is declared in the try block only; the
\* ReferenceError ends getDataset and the callback is never invoked
ReadFileError(i) ==
    /\ calls[i].pc = "reading"
    /\ calls' = [calls EXCEPT ![i].pc = "hung"]
    /\ UNCHANGED <<files, issued, started, mongoVars, archiveVars, configVars>>

\* fs.writeFile completes: the file holds the text stringified when save began
WriteFileOk(i) ==
    /\ calls[i].pc = "writing"
    /\ files' = [files EXCEPT ![archiveFile(calls[i].ns)] = FileWith(calls[i].text)]
    /\ calls' = [calls EXCEPT ![i].pc = "delay", ![i].wrote = TRUE]
    /\ UNCHANGED <<issued, started, mongoVars, archiveVars, configVars>>

\* fs.writeFile fails: save's catch block calls back with the error; it has
\* no clearInterval (intervalId is a variable of the try block)
WriteFileError(i) ==
    /\ calls[i].pc = "writing"
    /\ calls' = [calls EXCEPT
                    ![i].pc = "done", ![i].err = IOError,
                    ![i].val = IF calls[i].op = "delete"
                               THEN Bool(FALSE) ELSE calls[i].res]
    /\ UNCHANGED <<files, issued, started, mongoVars, archiveVars, configVars>>

\* the timer of saveFile fires: save clears its interval and its callback
\* runs without an error
SaveDone(i) ==
    /\ calls[i].pc = "delay"
    /\ calls' = [calls EXCEPT ![i].pc = "done", ![i].val = calls[i].res,
                              ![i].ticker = FALSE]
    /\ issued' = IF calls[i].op = "create"
                 THEN [issued EXCEPT ![calls[i].ns] = Append(@, calls[i].res[2])]
                 ELSE issued
    /\ UNCHANGED <<files, started, mongoVars, archiveVars, configVars>>

Step ==
    \E i \in 1..Len(calls) :
        \/ ReadFileOk(i)
        \/ ReadFileError(i)
        \/ WriteFileOk(i)
        \/ WriteFileError(i)
        \/ SaveDone(i)

Init ==
    /\ files = [file \in ArchiveFiles |-> NoFile]
    /\ calls = <<>>
    /\ issued = [ns \in Namespaces |-> <<>>]
    /\ started = 0
    /\ mongo = [ns \in Namespaces |-> EmptyDataset]
    /\ mcalls = <<>>
    /\ generated = 0
    /\ archive = Constructed(NoFile)
    /\ acalls = <<>>
    /\ config = Installed(NoEnv, {})

(***************************************************************************)
(* Spec: calls may overlap.                                                *)
(***************************************************************************)
Next ==
    \/ \E ns \in Called : Overlapped /\ List(ns, calls)
    \/ \E ns \in Called, d \in Bodies : Overlapped /\ Create(ns, d, calls)
    \/ \E ns \in Called, id \in Ids, d \in Bodies :
            Overlapped /\ Update(ns, id, d, calls)
    \/ \E ns \in Called, id \in Ids : Overlapped /\ Remove(ns, id, calls)
    \/ Step

Spec == Init /\ [][Next]_vars

(***************************************************************************)
(* SpecSeq: every call ends before the next is made.                       *)
(***************************************************************************)
Sequential == AllFinished /\ started < MaxSeqCalls

NextSeq ==
    \/ \E ns \in Called : Sequential /\ List(ns, Previous)
    \/ \E ns \in Called, d \in Bodies : Sequential /\ Create(ns, d, Previous)
    \/ \E ns \in Called, id \in Ids, d \in Bodies :
            Sequential /\ Update(ns, id, d, Previous)
    \/ \E ns \in Called, id \in Ids : Sequential /\ Remove(ns, id, Previous)
    \/ Step

SpecSeq == Init /\ [][NextSeq]_vars

(***************************************************************************)
(* SpecCreate: creates only, each ending before the next is made.          *)
(***************************************************************************)
NextCreate ==
    \/ \E ns \in Called, d \in Bodies :
            AllFinished /\ started < MaxCreates /\ Create(ns, d, Previous)
    \/ Step

SpecCreate == Init /\ [][NextCreate]_vars

(***************************************************************************)
(* SpecAssigned: creates, and updates whose identifiers the caller chose,  *)
(* each call ending before the next is made.                               *)
(***************************************************************************)
AssignedIds == {NumberToString(9), NumberToString(10)}

SequentialAssigned == AllFinished /\ started < MaxAssignedCalls

NextAssigned ==
    \/ \E ns \in Called, d \in Bodies :
            SequentialAssigned /\ Create(ns, d, Previous)
    \/ \E ns \in Called, id \in AssignedIds, d \in Bodies :
            SequentialAssigned /\ Update(ns, id, d, Previous)
    \/ Step

SpecAssigned == Init /\ [][NextAssigned]_vars

(***************************************************************************)
(* SpecNs: calls on two namespaces, which may overlap.                     *)
(***************************************************************************)
OverlappedNs == Len(calls) < MaxNsCalls

\* the identifiers and bodies of these runs
NsIds == {NumberToString(1), Constructor}
NsBodies == {Pen}

NextNs ==
    \/ \E ns \in Namespaces : OverlappedNs /\ List(ns, calls)
    \/ \E ns \in Namespaces, d \in NsBodies : OverlappedNs /\ Create(ns, d, calls)
    \/ \E ns \in Namespaces, id \in NsIds, d \in NsBodies :
            OverlappedNs /\ Update(ns, id, d, calls)
    \/ \E ns \in Namespaces, id \in NsIds : OverlappedNs /\ Remove(ns, id, calls)
    \/ Step

SpecNs == Init /\ [][NextNs]_vars

(***************************************************************************)
(* mongo-repository.  An ObjectID is <<"oid", n>>: the driver generates    *)
(* n = 1, 2, ... and <<"oid", 0>> is one the driver never generated.  The  *)
(* identifier of a request path is <<"hex", n>>, the hexadecimal string of *)
(* ObjectID n, or <<"bad">>, a string that is no ObjectID.                 *)
(*   pc "connecting": client.connect() is pending; "operating": the        *)
(*   operation on the collection is pending; "done": the callback was      *)
(*   invoked with err and val; "hung": perform ended without invoking it.  *)
(***************************************************************************)
Hex(n) == <<"hex", n>>
BadHex == <<"bad">>
IsObjectIDString(id) == id[1] = "hex"

\* ObjectID(id), for a string that is one
ObjectID(id) == <<"oid", id[2]>>

\* the identifiers a caller can name: those create has returned, one never
\* generated, and a malformed one
MongoIds == {Hex(n) : n \in 0..generated} \cup {BadHex}

OperationFailed == <<"error", "operation">>

\* updateOne(query, {$set: data}, {upsert: true}) on a matched document:
\* the fields of data are set, every other field of the document stays
SetFields(doc, data) ==
    [f \in (DOMAIN doc \cup DOMAIN data) |->
        IF f \in DOMAIN data THEN data[f] ELSE doc[f]]

\* the collection after updateOne
UpdateOneCollection(coll, oid, data) ==
    IF oid \in DOMAIN coll
    THEN [coll EXCEPT ![oid] = SetFields(@, data)]
    ELSE [k \in (DOMAIN coll \cup {oid}) |->
            IF k = oid THEN SetIdField(data, oid) ELSE coll[k]]

\* updateOne's modifiedCount: documents the update changed
ModifiedCount(coll, oid, data) ==
    IF oid \in DOMAIN coll /\ SetFields(coll[oid], data) # coll[oid] THEN 1 ELSE 0

\* update resolves with created
UpdateCreated(coll, oid, data) == ModifiedCount(coll, oid, data) = 0

\* deleteOne's deletedCount
DeletedCount(coll, oid) == IF oid \in DOMAIN coll THEN 1 ELSE 0

MBegin(op, ns, id, data) ==
    /\ Len(mcalls) < MaxMongoCalls
    /\ mcalls' = Append(mcalls,
            [op |-> op, ns |-> ns, id |-> id, data |-> data,
             pc |-> "connecting", client |-> "new",
             before |-> EmptyDataset, after |-> EmptyDataset,
             err |-> JNull, val |-> JNull])
    /\ UNCHANGED <<mongo, generated, fsVars, archiveVars, configVars>>

MList(ns) == MBegin("read", ns, BadHex, NoData)
MCreate(ns, data) == MBegin("create", ns, BadHex, data)
MUpdate(ns, id, data) == MBegin("update", ns, id, data)
MRemove(ns, id) == MBegin("delete", ns, id, NoData)

\* client.connect() resolves
ConnectOk(i) ==
    /\ mcalls[i].pc = "connecting"
    /\ mcalls' = [mcalls EXCEPT ![i].pc = "operating", ![i].client = "open"]
    /\ UNCHANGED <<mongo, generated, fsVars, archiveVars, configVars>>

\* client.connect() rejects: the catch block reads the variable namespace,
\* which is declared nowhere; the ReferenceError leaves perform through its
\* finally block, which closes the client, and the callback is never invoked
ConnectFails(i) ==
    /\ mcalls[i].pc = "connecting"
    /\ mcalls' = [mcalls EXCEPT ![i].pc = "hung", ![i].client = "closed"]
    /\ UNCHANGED <<mongo, generated, fsVars, archiveVars, configVars>>

\* what the operation does to the collection and resolves with
OperationResult(c, coll) ==
    CASE c.op = "read" ->
            [coll |-> coll, val |-> Arr(ObjectValues(coll)), gen |-> generated]
      [] c.op = "create" ->
            LET oid == <<"oid", generated + 1>>
            IN  [coll |-> [k \in (DOMAIN coll \cup {oid}) |->
                              IF k = oid THEN SetIdField(c.data, oid) ELSE coll[k]],
                 val |-> oid, gen |-> generated + 1]
      [] c.op = "update" ->
            [coll |-> UpdateOneCollection(coll, ObjectID(c.id), c.data),
             val |-> Bool(UpdateCreated(coll, ObjectID(c.id), c.data)),
             gen |-> generated]
      [] c.op = "delete" ->
            [coll |-> [k \in (DOMAIN coll \ {ObjectID(c.id)}) |-> coll[k]],
             val |-> Bool(DeletedCount(coll, ObjectID(c.id)) = 1),
             gen |-> generated]

\* the operation resolves; perform closes the client and calls back
OperationOk(i) ==
    /\ mcalls[i].pc = "operating"
    /\ mcalls[i].op \in {"update", "delete"} => IsObjectIDString(mcalls[i].id)
    /\ LET c == mcalls[i]
           r == OperationResult(c, mongo[c.ns])
       IN  /\ mongo' = [mongo EXCEPT ![c.ns] = r.coll]
           /\ generated' = r.gen
           /\ mcalls' = [mcalls EXCEPT
                            ![i].pc = "done", ![i].client = "closed",
                            ![i].before = mongo[c.ns], ![i].after = r.coll,
                            ![i].val = r.val]
    /\ UNCHANGED <<fsVars, archiveVars, configVars>>

\* perform closing the client after the operation inside the try block, not
\* in a finally block: a rejected operation skips the close
OperationErrorWithoutFinally(i) ==
    /\ mcalls[i].pc = "operating"
    /\ mcalls' = [mcalls EXCEPT
                    ![i].pc = "done",
                    ![i].before = mongo[mcalls[i].ns],
                    ![i].after = mongo[mcalls[i].ns],
                    ![i].err = OperationFailed]
    /\ UNCHANGED <<mongo, generated, fsVars, archiveVars, configVars>>

\* the operation rejects (the database fails, or ObjectID(id) throws):
\* perform closes the client and calls back with the error and no result
OperationError(i) ==
    /\ mcalls[i].pc = "operating"
    /\ mcalls' = [mcalls EXCEPT
                    ![i].pc = "done", ![i].client = "closed",
                    ![i].before = mongo[mcalls[i].ns],
                    ![i].after = mongo[mcalls[i].ns],
                    ![i].err = OperationFailed]
    /\ UNCHANGED <<mongo, generated, fsVars, archiveVars, configVars>>

MStep ==
    \E i \in 1..Len(mcalls) :
        \/ ConnectOk(i)
        \/ ConnectFails(i)
        \/ OperationOk(i)
        \/ OperationError(i)

NextMongo ==
    \/ \E ns \in Called : MList(ns)
    \/ \E ns \in Called, d \in Bodies : MCreate(ns, d)
    \/ \E ns \in Called, id \in MongoIds, d \in Bodies : MUpdate(ns, id, d)
    \/ \E ns \in Called, id \in MongoIds : MRemove(ns, id)
    \/ MStep

SpecMongo == Init /\ [][NextMongo]_vars

(***************************************************************************)
(* fs-data-archive: the calls.                                             *)
(*   pc "writing": fs.writeFile is pending; "delay": the save's timer is   *)
(*   pending; "done": the callback was invoked with err and val.  ticker:  *)
(*   the interval save set is still scheduled.                             *)
(*   A result is <<"dataset", d>> (list), <<"obj", data>> (create and      *)
(*   insert), <<"status", deleted>> (delete), or undefined.                *)
(***************************************************************************)
NotReady == <<"error", "Dataset still loading!">>

\* an isReady that lets every call through
isReadyAlways == TRUE

\* isReady's return value
isReady == archive.ready

ANewCall(op, id, data) ==
    [op |-> op, id |-> id, data |-> data, pc |-> "done", text |-> <<>>,
     res |-> Undefined, err |-> JNull, val |-> Undefined,
     saved |-> UndefinedProperty, early |-> ~archive.ready,
     before |-> archive.dataset, after |-> archive.dataset,
     file0 |-> archive.file, wrote |-> FALSE, ticker |-> FALSE,
     pred |-> {i \in 1..Len(acalls) : acalls[i].pc = "done"}]

\* isReady(callback) when not ready: callback(new Error(...))
Rejected(c) == [c EXCEPT !.err = NotReady]

ABegin(c, obj) ==
    /\ Len(acalls) < MaxArchiveCalls
    /\ acalls' = Append(acalls, c)
    /\ archive' = obj
    /\ UNCHANGED <<fsVars, mongoVars, configVars>>

AList ==
    LET c == ANewCall("list", Undefined, NoData)
    IN  ABegin(IF isReady
               THEN [c EXCEPT !.val = <<"dataset", archive.dataset>>]
               ELSE Rejected(c),
               archive)

\* insert(id, data, callback) on the object obj
AInsertCall(c, obj) ==
    IF isReady
    THEN [c EXCEPT !.pc = "writing",
                   !.text = ArchiveStringify(
                               SetProperty(obj.dataset, c.id, SetId(c.data, c.id))),
                   !.res = <<"obj", SetId(c.data, c.id)>>,
                   !.ticker = TRUE]
    ELSE Rejected(c)

AInsertObject(c, obj) ==
    IF isReady
    THEN [obj EXCEPT
            !.dataset = SetProperty(obj.dataset, c.id, SetId(c.data, c.id)),
            !.idCursor = IF Greater(c.id, obj.idCursor) THEN c.id ELSE obj.idCursor]
    ELSE obj

AInsert(id, data) ==
    LET c == ANewCall("insert", id, data)
    IN  ABegin(AInsertCall(c, archive), AInsertObject(c, archive))

\* create: ++this.idCursor is evaluated before insert tests isReady
ACreate(data) ==
    LET obj == [archive EXCEPT !.idCursor = Num(Increment(ToNumber(@)))]
        c == ANewCall("create", obj.idCursor, data)
    IN  ABegin(AInsertCall(c, obj), AInsertObject(c, obj))

ADelete(id) ==
    LET c == ANewCall("delete", id, NoData)
    IN  IF ~isReady
        THEN ABegin(Rejected(c), archive)
        ELSE IF In(id, archive.dataset)
        THEN ABegin([c EXCEPT !.pc = "writing",
                              !.saved = GetDataId(archive.dataset),
                              !.text = ArchiveStringify(
                                          DeleteProperty(archive.dataset, id)),
                              !.res = <<"status", TRUE>>,
                              !.ticker = TRUE],
                    [archive EXCEPT !.dataset = DeleteProperty(@, id)])
        ELSE ABegin([c EXCEPT !.val = <<"status", FALSE>>], archive)

\* the constructor's loadData resolves, with {} when there was no file and
\* with the parsed text when fs.readFile completes: init, then "ready"
ALoadOk ==
    /\ ~archive.ready
    /\ LET dataset == IF archive.file.exists
                      THEN JSONParse(archive.file.text) ELSE EmptyDataset
       IN  archive' = [init(archive, dataset) EXCEPT !.ready = TRUE]
    /\ UNCHANGED <<acalls, fsVars, mongoVars, configVars>>

\* the constructor's load fails (fs.readFile or JSON.parse of a file that
\* exists): "ready" is emitted without init
ALoadError ==
    /\ ~archive.ready
    /\ archive.file.exists
    /\ archive' = [archive EXCEPT !.ready = TRUE]
    /\ UNCHANGED <<acalls, fsVars, mongoVars, configVars>>

AWriteFileOk(i) ==
    /\ acalls[i].pc = "writing"
    /\ archive' = [archive EXCEPT !.file = FileWith(acalls[i].text)]
    /\ acalls' = [acalls EXCEPT ![i].pc = "delay", ![i].wrote = TRUE]
    /\ UNCHANGED <<fsVars, mongoVars, configVars>>

\* fs.writeFile fails: save's catch block, which has no clearInterval, calls
\* back with the error; insert passes it on, delete first assigns the value
\* it cached to dataset[dataId]
AWriteFileError(i) ==
    /\ acalls[i].pc = "writing"
    /\ LET c == acalls[i]
           dataset == IF c.op = "delete"
                      THEN SetProperty(archive.dataset, c.id, c.saved)
                      ELSE archive.dataset
       IN  /\ archive' = [archive EXCEPT !.dataset = dataset]
           /\ acalls' = [acalls EXCEPT
                            ![i].pc = "done", ![i].err = IOError,
                            ![i].val = IF c.op = "delete"
                                       THEN <<"status", FALSE>> ELSE c.res,
                            ![i].after = dataset]
    /\ UNCHANGED <<fsVars, mongoVars, configVars>>

\* the timer of saveFile fires: save clears its interval and its callback
\* runs without an error
ASaveDone(i) ==
    /\ acalls[i].pc = "delay"
    /\ acalls' = [acalls EXCEPT ![i].pc = "done", ![i].val = acalls[i].res,
                                ![i].after = archive.dataset,
                                ![i].ticker = FALSE]
    /\ UNCHANGED <<archive, fsVars, mongoVars, configVars>>

\* the file a start finds: none, or the file an earlier run left after one
\* create
SeedDataset == SetProperty(EmptyDataset, Num(1), SetId(Pen, Num(1)))
InitialArchiveFiles == {NoFile, FileWith(ArchiveStringify(SeedDataset))}

InitArchive ==
    /\ files = [file \in ArchiveFiles |-> NoFile]
    /\ calls = <<>>
    /\ issued = [ns \in Namespaces |-> <<>>]
    /\ started = 0
    /\ mongo = [ns \in Namespaces |-> EmptyDataset]
    /\ mcalls = <<>>
    /\ generated = 0
    /\ \E file \in InitialArchiveFiles : archive = Constructed(file)
    /\ acalls = <<>>
    /\ config = Installed(NoEnv, {})

NextArchive ==
    \/ AList
    \/ \E d \in Bodies : ACreate(d)
    \/ \E id \in Ids, d \in Bodies : AInsert(StrV(id), d)
    \/ \E id \in Ids : ADelete(StrV(id))
    \/ ALoadOk
    \/ ALoadError
    \/ \E i \in 1..Len(acalls) :
            \/ AWriteFileOk(i)
            \/ AWriteFileError(i)
            \/ ASaveDone(i)

SpecArchive == InitArchive /\ [][NextArchive]_vars

(***************************************************************************)
(* What the claims speak of.                                               *)
(***************************************************************************)
\* the dataset a namespace's file holds
StoredIn(file) == IF file.exists THEN JSONParse(file.text) ELSE EmptyDataset
Stored(ns) == StoredIn(files[archiveFile(ns)])

Succeeded(c) == c.pc = "done" /\ c.err = JNull

\* call j was made while call i, made before it, had not ended
Overlap(i, j) ==
    /\ i < j
    /\ calls[i].ns = calls[j].ns
    /\ i \notin calls[j].pred

\* no call other than i and j changes the namespace of call i
OnlyMutators(i, j) ==
    \A k \in 1..Len(calls) :
        (k \notin {i, j} /\ calls[k].ns = calls[i].ns) => ~Mutating(calls[k])

\* the record a successful create stored
CreatedRecord(c) == SetIdField(c.data, c.val)

\* the stored dataset shows the change of the update or delete c
Reflects(c, dataset) ==
    IF c.op = "update"
    THEN /\ c.id \in DOMAIN dataset
         /\ dataset[c.id] = SetIdField(c.data, StrV(c.id))
    ELSE c.val = Bool(TRUE) => c.id \notin DOMAIN dataset

\* the fields of an object other than its identifier field
Content(obj) == [f \in (DOMAIN obj \ {idField}) |-> obj[f]]

\* the records of a read's result stored under identifier id
RecordsOf(val, id) == {r \in val[2] : ToPropertyKey(r[idField]) = id}

\* call i + 1 is a read of the namespace of call i that has called back
ReadFollows(i) ==
    /\ i < Len(calls)
    /\ calls[i + 1].op = "read"
    /\ calls[i + 1].ns = calls[i].ns
    /\ Succeeded(calls[i + 1])

(***************************************************************************)
(* C1: two create calls on one namespace that overlap never call back      *)
(* with the same identifier.                                               *)
(***************************************************************************)
C1_OverlappingCreatesDistinctIds ==
    \A i, j \in 1..Len(calls) :
        ( /\ Overlap(i, j)
          /\ calls[i].op = "create" /\ calls[j].op = "create"
          /\ Succeeded(calls[i]) /\ Succeeded(calls[j]) )
        => calls[i].val # calls[j].val

(***************************************************************************)
(* C2: after two overlapping creates on one namespace have both called     *)
(* back without error, a read of the namespace returns both records.       *)
(***************************************************************************)
C2_OverlappingCreatesBothRead ==
    \A i, j, k \in 1..Len(calls) :
        ( /\ Overlap(i, j)
          /\ calls[i].op = "create" /\ calls[j].op = "create"
          /\ Succeeded(calls[i]) /\ Succeeded(calls[j])
          /\ OnlyMutators(i, j)
          /\ calls[k].op = "read" /\ calls[k].ns = calls[i].ns
          /\ {i, j} \subseteq calls[k].pred
          /\ Succeeded(calls[k]) )
        => {CreatedRecord(calls[i]), CreatedRecord(calls[j])} \subseteq calls[k].val[2]

(***************************************************************************)
(* C3: two overlapping updates or deletes of different identifiers of one  *)
(* namespace: once both have called back with success, the stored dataset  *)
(* shows both changes.                                                     *)
(***************************************************************************)
C3_OverlappingChangesBothStored ==
    \A i, j \in 1..Len(calls) :
        ( /\ Overlap(i, j)
          /\ calls[i].op \in {"update", "delete"}
          /\ calls[j].op \in {"update", "delete"}
          /\ calls[i].id # calls[j].id
          /\ Succeeded(calls[i]) /\ Succeeded(calls[j])
          /\ OnlyMutators(i, j) )
        => /\ Reflects(calls[i], Stored(calls[i].ns))
           /\ Reflects(calls[j], Stored(calls[i].ns))

(***************************************************************************)
(* C4: in a run of creates, each ended before the next begins, every       *)
(* identifier called back is greater than all identifiers called back      *)
(* before it in the namespace (checked under SpecCreate).                  *)
(***************************************************************************)
C4_SequentialCreatesIncrease ==
    \A ns \in Namespaces :
        \A i, j \in 1..Len(issued[ns]) :
            i < j => ( /\ issued[ns][i] # NaN /\ issued[ns][j] # NaN
                       /\ issued[ns][i] < issued[ns][j] )

(***************************************************************************)
(* C5: an identifier create has called back with is never called back by   *)
(* a later create of the namespace, whatever was deleted in between        *)
(* (checked under SpecSeq).                                                *)
(***************************************************************************)
C5_IdentifierNeverReused ==
    \A ns \in Namespaces :
        \A i, j \in 1..Len(issued[ns]) :
            i # j => issued[ns][i] # issued[ns][j]

UpdateOfExistingFileStore ==
    \A i \in 1..Len(calls) :
        ( /\ calls[i].op = "update"
          /\ Succeeded(calls[i])
          /\ calls[i].id \in DOMAIN calls[i].loaded )
        => calls[i].val = Bool(FALSE)

UpdateOfExistingDocumentStore ==
    \A i \in 1..Len(mcalls) :
        ( /\ mcalls[i].op = "update"
          /\ Succeeded(mcalls[i])
          /\ ObjectID(mcalls[i].id) \in DOMAIN mcalls[i].before )
        => mcalls[i].val = Bool(FALSE)

\* an update of an identifier that has a record leaves the data's fields only
UpdateReplacesFileStore ==
    \A i \in 1..Len(calls) :
        ( /\ calls[i].op = "update"
          /\ Succeeded(calls[i])
          /\ calls[i].id \in DOMAIN calls[i].loaded )
        => /\ calls[i].id \in DOMAIN JSONParse(calls[i].text)
           /\ Content(JSONParse(calls[i].text)[calls[i].id]) = Content(calls[i].data)
           /\ JSONParse(calls[i].text)[calls[i].id][idField] = StrV(calls[i].id)

UpdateReplacesDocumentStore ==
    \A i \in 1..Len(mcalls) :
        ( /\ mcalls[i].op = "update"
          /\ Succeeded(mcalls[i])
          /\ ObjectID(mcalls[i].id) \in DOMAIN mcalls[i].before )
        => /\ ObjectID(mcalls[i].id) \in DOMAIN mcalls[i].after
           /\ Content(mcalls[i].after[ObjectID(mcalls[i].id)]) = Content(mcalls[i].data)
           /\ mcalls[i].after[ObjectID(mcalls[i].id)][idField] = ObjectID(mcalls[i].id)

(***************************************************************************)
(* C7: in the file store and in the document store, an update of an        *)
(* identifier that has a record calls back with created = false, whatever  *)
(* the data, also data equal to what is stored (checked under SpecMongo).  *)
(***************************************************************************)
C7_UpdateOfExistingNotCreated ==
    UpdateOfExistingFileStore /\ UpdateOfExistingDocumentStore

(***************************************************************************)
(* C8: in the file store and in the document store, an update of an        *)
(* identifier that has a record leaves under it exactly the fields of the  *)
(* data and the identifier field (checked under SpecMongo).                *)
(***************************************************************************)
C8_UpdateReplacesContent ==
    UpdateReplacesFileStore /\ UpdateReplacesDocumentStore

(***************************************************************************)
(* C9: a delete of an identifier that is not in the stored dataset calls   *)
(* back with deleted = false and no error, writes no file and leaves the   *)
(* file as it was (checked under SpecSeq).                                 *)
(***************************************************************************)
C9_DeleteOfAbsentChangesNothing ==
    \A i \in 1..Len(calls) :
        ( /\ calls[i].op = "delete"
          /\ calls[i].pc \in {"writing", "delay", "done"}
          /\ calls[i].id \notin DOMAIN StoredIn(calls[i].file0) )
        => /\ calls[i].pc = "done"
           /\ calls[i].err = JNull
           /\ calls[i].val = Bool(FALSE)
           /\ ~calls[i].wrote
           /\ i = Len(calls) => files[archiveFile(calls[i].ns)] = calls[i].file0

(***************************************************************************)
(* C10: a delete of an identifier that is in the stored dataset, when it   *)
(* calls back without error, reports true and has removed that record and  *)
(* no other; a read after it has no record under the identifier and a      *)
(* second delete of the identifier reports false (checked under SpecSeq).  *)
(***************************************************************************)
C10_DeleteOfPresentRemovesIt ==
    \A i \in 1..Len(calls) :
        ( /\ calls[i].op = "delete"
          /\ Succeeded(calls[i])
          /\ calls[i].id \in DOMAIN StoredIn(calls[i].file0) )
        => /\ calls[i].val = Bool(TRUE)
           /\ i = Len(calls) =>
                Stored(calls[i].ns) =
                    DeleteProperty(StoredIn(calls[i].file0), StrV(calls[i].id))
           /\ ReadFollows(i) => RecordsOf(calls[i + 1].val, calls[i].id) = {}
           /\ ( /\ i < Len(calls)
                /\ calls[i + 1].op = "delete"
                /\ calls[i + 1].ns = calls[i].ns
                /\ calls[i + 1].id = calls[i].id
                /\ calls[i + 1].pc = "done" )
              => ( /\ calls[i + 1].err = JNull
                   /\ calls[i + 1].val = Bool(FALSE) )

(***************************************************************************)
(* C11: a read of a namespace that has no file calls back at once with no  *)
(* error and an empty array, writes nothing and leaves the namespace       *)
(* without a file (checked under SpecSeq).                                 *)
(***************************************************************************)
C11_ReadOfMissingIsEmpty ==
    \A i \in 1..Len(calls) :
        ( /\ calls[i].op = "read"
          /\ ~calls[i].file0.exists )
        => /\ calls[i].pc = "done"
           /\ calls[i].err = JNull
           /\ calls[i].val = Arr({})
           /\ ~calls[i].wrote
           /\ i = Len(calls) => files[archiveFile(calls[i].ns)] = NoFile

C11_Witness ==
    \E i \in 1..Len(calls) :
        /\ i = Len(calls)
        /\ calls[i].op = "read"
        /\ ~calls[i].file0.exists
        /\ calls[i].pc = "done"
        /\ files[archiveFile(calls[i].ns)] = NoFile

(***************************************************************************)
(* C12: after calls made one after another, the dataset parsed from the    *)
(* file is the dataset the last successful mutating call handed to save    *)
(* (checked under SpecSeq).                                                *)
(***************************************************************************)
C12_LoadReturnsSaved ==
    \A i \in 1..Len(calls) :
        ( /\ i = Len(calls)
          /\ Mutating(calls[i])
          /\ Succeeded(calls[i])
          /\ calls[i].wrote )
        => Stored(calls[i].ns) = Saved(calls[i], calls[i].loaded)

\* calls i and i + 1 are the same update, and both have called back
\* without error
SameUpdateTwice(i) ==
    /\ i < Len(calls)
    /\ calls[i].op = "update" /\ calls[i + 1].op = "update"
    /\ calls[i + 1].ns = calls[i].ns
    /\ calls[i + 1].id = calls[i].id
    /\ calls[i + 1].data = calls[i].data
    /\ Succeeded(calls[i]) /\ Succeeded(calls[i + 1])

(***************************************************************************)
(* C19: an update made twice in a row with the same namespace, identifier  *)
(* and data leaves the stored dataset equal to the dataset stored after    *)
(* the first of the two, and the second reports created = false (checked   *)
(* under SpecSeq).                                                         *)
(***************************************************************************)
C19_UpdateTwiceIsUpdateOnce ==
    \A i \in 1..Len(calls) :
        SameUpdateTwice(i)
        => /\ Stored(calls[i].ns) = JSONParse(calls[i].text)
           /\ StoredIn(calls[i + 1].file0) = JSONParse(calls[i].text)
           /\ calls[i + 1].val = Bool(FALSE)

C19_Witness ==
    \E i \in 1..Len(calls) :
        /\ SameUpdateTwice(i)
        /\ calls[i].file0.exists
        /\ calls[i].id \notin DOMAIN StoredIn(calls[i].file0)
        /\ calls[i + 1].wrote

(***************************************************************************)
(* C16: a call whose file exists but cannot be read still goes on with an  *)
(* empty dataset and completes: no call ends without its callback having   *)
(* been invoked (checked under SpecSeq).                                   *)
(***************************************************************************)
C16_LoadFailureStillCompletes ==
    \A i \in 1..Len(calls) : calls[i].pc # "hung"

\* update and delete with an identifier that is no ObjectID string
Malformed(c) == c.op \in {"update", "delete"} /\ ~IsObjectIDString(c.id)

(***************************************************************************)
(* C17: every document store call that fails (the connection, the          *)
(* operation, or a malformed identifier) calls back with an error and no   *)
(* result: no call ends without its callback, a callback with an error     *)
(* carries no result, and a call with a malformed identifier calls back    *)
(* with an error (checked under SpecMongo).                                *)
(***************************************************************************)
C17_FailureCallsBackWithError ==
    \A i \in 1..Len(mcalls) :
        /\ mcalls[i].pc # "hung"
        /\ (mcalls[i].pc = "done" /\ mcalls[i].err # JNull) => mcalls[i].val = JNull
        /\ (mcalls[i].pc = "done" /\ Malformed(mcalls[i])) => mcalls[i].err # JNull

Quiet(i) ==
    \A k \in 1..Len(acalls) :
        k # i => (k \in acalls[i].pred \/ i \in acalls[k].pred)

\* call i was accepted and its save has failed
PersistFailed(i) ==
    /\ acalls[i].pc = "done"
    /\ ~acalls[i].early
    /\ acalls[i].err # JNull

(***************************************************************************)
(* C13: in fs-data-archive, when the save of a create or insert fails, the *)
(* callback gets the error and the in-memory dataset is what it was before *)
(* the call (checked under SpecArchive).                                   *)
(***************************************************************************)
C13_FailedInsertLeavesDataset ==
    \A i \in 1..Len(acalls) :
        ( /\ acalls[i].op \in {"create", "insert"}
          /\ PersistFailed(i)
          /\ Quiet(i) )
        => /\ acalls[i].err = IOError
           /\ acalls[i].after = acalls[i].before

(***************************************************************************)
(* C14: in fs-data-archive, when the save of a delete of a stored record   *)
(* fails, the in-memory dataset again holds the record under its           *)
(* identifier with the content it had, and the callback gets the error     *)
(* with deleted = false (checked under SpecArchive).                       *)
(***************************************************************************)
C14_FailedDeleteRestoresRecord ==
    \A i \in 1..Len(acalls) :
        ( /\ acalls[i].op = "delete"
          /\ PersistFailed(i)
          /\ HasOwnProperty(acalls[i].before, acalls[i].id)
          /\ Quiet(i) )
        => /\ acalls[i].err = IOError
           /\ acalls[i].val = <<"status", FALSE>>
           /\ acalls[i].after = acalls[i].before

(***************************************************************************)
(* C15: in fs-data-archive, a list, create, insert or delete made before   *)
(* the load has ended calls back at once with the not-ready error and no   *)
(* result and writes nothing; until the load ends the in-memory dataset    *)
(* stays empty and the file stays as every call found it (checked under    *)
(* SpecArchive).                                                           *)
(***************************************************************************)
C15_NotReadyRejects ==
    /\ \A i \in 1..Len(acalls) :
            acalls[i].early
            => /\ acalls[i].pc = "done"
               /\ acalls[i].err = NotReady
               /\ acalls[i].val = Undefined
               /\ ~acalls[i].wrote
               /\ acalls[i].after = acalls[i].before
    /\ ~archive.ready
        => /\ archive.dataset = EmptyDataset
           /\ \A i \in 1..Len(acalls) : acalls[i].file0 = archive.file

C15_Witness ==
    /\ ~archive.ready
    /\ Len(acalls) = 2
    /\ acalls[1].op = "create" /\ acalls[1].early
    /\ acalls[2].op = "delete" /\ acalls[2].early
    /\ archive.file.exists
    /\ HasOwnProperty(JSONParse(archive.file.text), acalls[2].id)

\* the files the calls on namespace ns among the first n calls have written
WrittenBy(ns, n) ==
    {FileWith(calls[k].text) :
        k \in {j \in 1..n : calls[j].ns = ns /\ calls[j].pc \in {"delay", "done"}
                                /\ calls[j].text # <<>>}}

(***************************************************************************)
(* C20: a call on one namespace changes the file and the dataset of no     *)
(* other namespace: the file of a namespace is absent or as a call on that *)
(* namespace wrote it, and so is the file every call found and the dataset *)
(* it loaded (checked under SpecNs).                                       *)
(***************************************************************************)
C20_NamespacesAreIsolated ==
    /\ \A ns \in Namespaces :
            files[archiveFile(ns)] \in {NoFile} \cup WrittenBy(ns, Len(calls))
    /\ \A i \in 1..Len(calls) :
            /\ calls[i].file0 \in {NoFile} \cup WrittenBy(calls[i].ns, i - 1)
            /\ \E file \in {NoFile} \cup WrittenBy(calls[i].ns, Len(calls)) :
                    calls[i].loaded \in {EmptyDataset, StoredIn(file)}

C20_Witness ==
    \E i, j \in 1..Len(calls) :
        /\ calls[i].ns # calls[j].ns
        /\ i < j /\ i \notin calls[j].pred
        /\ Succeeded(calls[i]) /\ calls[i].wrote
        /\ calls[j].pc = "done" /\ calls[j].err # JNull
        /\ files[archiveFile(calls[j].ns)] = NoFile
        /\ files[archiveFile(calls[i].ns)] = FileWith(calls[i].text)

(***************************************************************************)
(* SpecConfig: a process loads the configuration modules.                  *)
(***************************************************************************)
\* require("../config/server")
RequireServer ==
    /\ config.server = NotLoaded
    /\ config' = [config EXCEPT !.server = RequireServerJs(config.env)]
    /\ UNCHANGED <<fsVars, mongoVars, archiveVars>>

\* require of the document store configuration that reads MONGO_URL
RequireMongoRepository ==
    /\ config.mongo = NotLoaded
    /\ config' = [config EXCEPT !.mongo = MongoUrlExports(config.env)]
    /\ UNCHANGED <<fsVars, mongoVars, archiveVars>>

\* serverConfig.getCors()
GetCors ==
    /\ config.server # NotLoaded
    /\ config.cors = NotCalled
    /\ config' = [config EXCEPT
                     !.cors = IF "getCors" \in DOMAIN config.server
                              THEN corsConfig(config.env, config.dirs)
                              ELSE TypeError]
    /\ UNCHANGED <<fsVars, mongoVars, archiveVars>>

ConfigDirs == {"/etc/config", EnvValue.CONFIG_PATH}

InitConfig ==
    /\ files = [file \in ArchiveFiles |-> NoFile]
    /\ calls = <<>>
    /\ issued = [ns \in Namespaces |-> <<>>]
    /\ started = 0
    /\ mongo = [ns \in Namespaces |-> EmptyDataset]
    /\ mcalls = <<>>
    /\ generated = 0
    /\ archive = Constructed(NoFile)
    /\ acalls = <<>>
    /\ \E env \in Environments, dirs \in SUBSET ConfigDirs :
            config = Installed(env, dirs)

NextConfig ==
    \/ RequireServer
    \/ RequireMongoRepository
    \/ GetCors

SpecConfig == InitConfig /\ [][NextConfig]_vars

(***************************************************************************)
(* The request router: what it answers to the callback of a repository.    *)
(***************************************************************************)
\* deleteData's callback: the status of the response
deleteData(err, deleted) ==
    IF err # JNull THEN 500
    ELSE IF deleted = Bool(FALSE) THEN 404
    ELSE 200

\* DELETE over the file store
DeleteStatusFileStore ==
    \A i \in 1..Len(calls) :
        (calls[i].op = "delete" /\ calls[i].pc = "done")
        => LET status == deleteData(calls[i].err, calls[i].val)
               found == calls[i].id \in DOMAIN StoredIn(calls[i].file0)
           IN  IF calls[i].err # JNull
               THEN status >= 500
               ELSE /\ status = 200 <=> found
                    /\ status = 404 <=> ~found

\* DELETE over the document store
DeleteStatusDocumentStore ==
    \A i \in 1..Len(mcalls) :
        (mcalls[i].op = "delete" /\ mcalls[i].pc = "done")
        => LET status == deleteData(mcalls[i].err, mcalls[i].val)
               found == ObjectID(mcalls[i].id) \in DOMAIN mcalls[i].before
           IN  IF mcalls[i].err # JNull
               THEN status >= 500
               ELSE /\ status = 200 <=> found
                    /\ status = 404 <=> ~found

(***************************************************************************)
(* C21: a DELETE is answered with 200 exactly when the identifier had a    *)
(* record, which was deleted, with 404 exactly when it had none, and with  *)
(* a status of the 500 class when the repository called back with an       *)
(* error, over the file store and over the document store (checked under   *)
(* SpecSeq).                                                               *)
(***************************************************************************)
C21_DeleteStatus ==
    DeleteStatusFileStore /\ DeleteStatusDocumentStore

\* a URL: the parts of its authority (host, port) and its path segments
\* postData's Location header: `http://${serverConfig.host}/data/${identifier}`
Location(host, identifier) ==
    [authority |-> <<host>>, path |-> <<"data", ToPropertyKey(identifier)>>]

\* postData's callback: the response
postData(host, err, identifier) ==
    IF err # JNull
    THEN [status |-> 500, location |-> [authority |-> <<>>, path |-> <<>>]]
    ELSE [status |-> 201, location |-> Location(host, identifier)]

\* the route /:namespace/data/:dataId of webServer.put and webServer.delete
DataRouteAccepts(path) == Len(path) = 3 /\ path[2] = "data"

(***************************************************************************)
(* C22: a create that succeeds is answered with 201 and a Location header  *)
(* that names host and port and whose path is /<namespace>/data/<id>, the  *)
(* path the PUT and DELETE routes accept, with the namespace of the        *)
(* request and the identifier the repository returned (checked under       *)
(* SpecSeq).                                                               *)
(***************************************************************************)
C22_LocationOfCreated ==
    \A i \in 1..Len(calls) :
        (calls[i].op = "create" /\ Succeeded(calls[i]))
        => LET r == postData("localhost", calls[i].err, calls[i].val)
           IN  /\ r.status = 201
               /\ Len(r.location.authority) = 2
               /\ DataRouteAccepts(r.location.path)
               /\ r.location.path[1] = calls[i].ns
               /\ r.location.path[3] = ToPropertyKey(calls[i].val)

\* the value of a variable of the environment, or the default when not set
EnvOr(name, default) ==
    IF name \in DOMAIN config.env THEN config.env[name] ELSE default

(***************************************************************************)
(* C23: the server configuration module, once loaded, exports repository,  *)
(* host, port and configPath with the values of REPOSITORY, HOST, PORT and *)
(* CONFIG_PATH, or mongo-repository, localhost, 4242 and /etc/config for   *)
(* those not set, and getCors returns the content of the cors file under   *)
(* configPath, or GET,POST,PUT,DELETE without one (checked under           *)
(* SpecConfig).                                                            *)
(***************************************************************************)
C23_ServerConfig ==
    /\ config.server # NotLoaded
        => /\ {"repository", "host", "port", "configPath", "getCors"}
                  \subseteq DOMAIN config.server
           /\ config.server.repository = EnvOr("REPOSITORY", "mongo-repository")
           /\ config.server.host = EnvOr("HOST", "localhost")
           /\ config.server.port = EnvOr("PORT", 4242)
           /\ config.server.configPath = EnvOr("CONFIG_PATH", "/etc/config")
    /\ config.cors # NotCalled
        => config.cors = IF EnvOr("CONFIG_PATH", "/etc/config") \in config.dirs
                         THEN CorsContent ELSE "GET,POST,PUT,DELETE"

\* the location and dbName the document store configuration is to export
ExpectedMongoConfig ==
    [location |-> "mongodb://" \o EnvOr("MONGO_HOST", "localhost")
                     \o ":" \o EnvOr("MONGO_PORT", "27017"),
     dbName |-> EnvOr("DB_NAME", "MyData")]

(***************************************************************************)
(* C24: the document store configuration, once loaded, exports location =  *)
(* mongodb://<MONGO_HOST>:<MONGO_PORT> and dbName = <DB_NAME>, with        *)
(* localhost, 27017 and MyData for the variables not set (checked under    *)
(* SpecConfig).                                                            *)
(***************************************************************************)
C24_MongoConfig ==
    /\ config.mongo # NotLoaded => config.mongo = ExpectedMongoConfig
    /\ (config.server # NotLoaded /\ "location" \in DOMAIN config.server)
        => config.server = ExpectedMongoConfig

\* a key that is the decimal numeral of an integer
IsDecimalKey(k) == Len(k) > 0 /\ \A i \in 1..Len(k) : IsDigit(k[i])

\* the greatest key of a dataset with decimal keys compared as numbers, 0
\* for the empty dataset
NumericMax(dataset) ==
    LET numbers == {ParseDigits(k, 1, 0) : k \in DOMAIN dataset} \cup {0}
    IN  CHOOSE m \in numbers : \A n \in numbers : n <= m

(***************************************************************************)
(* C25: the identifier create assigns is 1 plus the greatest identifier of *)
(* the loaded dataset, compared as numbers, whenever the keys of the       *)
(* dataset are decimal numerals, also with ten keys or more (checked under *)
(* SpecCreate).                                                            *)
(***************************************************************************)
C25_CreateAssignsNumericMaxPlusOne ==
    \A i \in 1..Len(calls) :
        ( /\ calls[i].op = "create"
          /\ calls[i].pc \in {"writing", "delay", "done"}
          /\ \A k \in DOMAIN calls[i].loaded : IsDecimalKey(k) )
        => calls[i].res = Num(NumericMax(calls[i].loaded) + 1)

\* call i is an update, ended with success, whose decimal identifier is
\* greater than every identifier of the dataset it loaded, and call i + 1
\* is a create that has been assigned its identifier
CreateFollowsAssigned(i) ==
    /\ i < Len(calls)
    /\ calls[i].op = "update" /\ Succeeded(calls[i])
    /\ IsDecimalKey(calls[i].id)
    /\ \A k \in DOMAIN calls[i].loaded : IsDecimalKey(k)
    /\ ParseDigits(calls[i].id, 1, 0) > NumericMax(calls[i].loaded)
    /\ calls[i + 1].op = "create"
    /\ calls[i + 1].ns = calls[i].ns
    /\ calls[i + 1].pc \in {"writing", "delay", "done"}

(***************************************************************************)
(* C26: after an update with a decimal identifier k greater than every     *)
(* identifier of the namespace, the next create is assigned an identifier  *)
(* greater than k, under which the loaded dataset has no record (checked   *)
(* under SpecAssigned).                                                    *)
(***************************************************************************)
C26_CreateAfterAssignedIdentifier ==
    \A i \in 1..Len(calls) :
        CreateFollowsAssigned(i)
        => /\ calls[i + 1].res[2] # NaN
           /\ calls[i + 1].res[2] > ParseDigits(calls[i].id, 1, 0)
           /\ ~HasOwnProperty(calls[i + 1].loaded, calls[i + 1].res)

(***************************************************************************)
(* C27: in every state every record of a namespace's file carries an       *)
(* identifier field whose value, written as a key, is the key the record   *)
(* is stored under (checked under SpecSeq).                                *)
(***************************************************************************)
C27_IdentifierFieldIsKey ==
    \A ns \in Namespaces :
        \A k \in DOMAIN Stored(ns) :
            /\ idField \in DOMAIN Stored(ns)[k]
            /\ ToPropertyKey(Stored(ns)[k][idField]) = k

\* the dataset holds the change of the mutating call c, whose save has
\* stringified its dataset into c.text
HoldsChange(c, dataset) ==
    IF c.op = "delete"
    THEN c.id \notin DOMAIN dataset
    ELSE LET k == IF c.op = "create" THEN ToPropertyKey(c.res) ELSE c.id
         IN  /\ k \in DOMAIN dataset
             /\ dataset[k] = JSONParse(c.text)[k]

(***************************************************************************)
(* C28: at the step in which the callback of a create, update or delete    *)
(* reports success, the namespace's file holds the change of that call,    *)
(* also when other mutating calls on the namespace are in progress         *)
(* (checked under Spec).                                                   *)
(***************************************************************************)
C28_FileHoldsChangeAtCallback ==
    [][ \A i \in 1..Len(calls) :
            (SaveDone(i) /\ Mutating(calls[i]))
            => HoldsChange(calls[i], Stored(calls[i].ns)) ]_vars

\* every call made has called back without error, and one has saved
AllSavesSucceeded ==
    /\ \A i \in 1..Len(acalls) : acalls[i].pc = "done" /\ acalls[i].err = JNull
    /\ \E i \in 1..Len(acalls) : acalls[i].wrote

(***************************************************************************)
(* C29: in fs-data-archive, once every save of the mutating calls made,    *)
(* overlapping or not, has completed with success, in whatever order the   *)
(* file writes ended, the file holds the text of the in-memory dataset     *)
(* (checked under SpecArchive).                                            *)
(***************************************************************************)
C29_FileEqualsMemoryAfterSaves ==
    AllSavesSucceeded
    => archive.file = FileWith(ArchiveStringify(archive.dataset))

(***************************************************************************)
(* C30: every call of read, create, update or delete that has ended has    *)
(* invoked its callback, under every outcome, and a mutating call that     *)
(* went to save has invoked it only after its write ended, with success or *)
(* with the error of the write (checked under Spec).                       *)
(***************************************************************************)
C30_CallbackAfterPersist ==
    \A i \in 1..Len(calls) :
        Finished(calls[i])
        => /\ calls[i].pc = "done"
           /\ (Mutating(calls[i]) /\ calls[i].text # <<>>)
                => (calls[i].wrote \/ calls[i].err = IOError)

\* the steps in which the constructor's load attempt ends
LoadEnds == ALoadOk \/ ALoadError

(***************************************************************************)
(* C31: in fs-data-archive the ready flag is false at construction; it     *)
(* becomes true in the step in which the load attempt ends, with success   *)
(* or with failure, in no other step, and is never false again; when the   *)
(* load has failed the dataset is empty and the identifier cursor is 0     *)
(* (checked under SpecArchive).                                            *)
(***************************************************************************)
C31_ReadyOnceAfterLoad ==
    /\ ~archive.ready
    /\ [][ /\ archive.ready => archive'.ready
           /\ (~archive.ready /\ archive'.ready) <=> LoadEnds
           /\ ALoadError => /\ archive'.dataset = EmptyDataset
                            /\ archive'.idCursor = Num(0) ]_vars

\* the first call the store accepts is call i, a create
FirstAcceptedCreate(i) ==
    /\ acalls[i].op = "create"
    /\ ~acalls[i].early
    /\ \A k \in 1..(i - 1) : acalls[k].early

(***************************************************************************)
(* C32: in fs-data-archive a create rejected before the load has ended     *)
(* takes no identifier: the first create accepted after it is assigned 1   *)
(* plus the cursor of the dataset the load left (the loaded dataset, or    *)
(* the empty one when the load failed), as when no call had been rejected  *)
(* (checked under SpecArchive).                                            *)
(***************************************************************************)
C32_RejectedCreateTakesNoIdentifier ==
    \A i \in 1..Len(acalls) :
        FirstAcceptedCreate(i)
        => acalls[i].id = Num(Increment(ParseInt(ReduceMaxKey(acalls[i].before))))

(***************************************************************************)
(* C33: the interval that save sets is cleared when save has invoked its   *)
(* callback, with an error as well as without: no call of the file store   *)
(* or of fs-data-archive whose callback was invoked has its interval still *)
(* scheduled (checked under SpecSeq).                                      *)
(***************************************************************************)
C33_TickerStoppedAtCallback ==
    /\ \A i \in 1..Len(calls) : calls[i].pc = "done" => ~calls[i].ticker
    /\ \A i \in 1..Len(acalls) : acalls[i].pc = "done" => ~acalls[i].ticker

(***************************************************************************)
(* C34: the identifier a create of the file store calls back with is a     *)
(* positive integer under which the dataset it loaded has no record, also  *)
(* when updates have stored records under identifiers that are no numerals *)
(* (checked under SpecSeq).                                                *)
(***************************************************************************)
C34_CreateReturnsFreshPositiveInteger ==
    \A i \in 1..Len(calls) :
        (calls[i].op = "create" /\ calls[i].pc = "done")
        => /\ calls[i].val[1] = "num"
           /\ calls[i].val[2] # NaN
           /\ calls[i].val[2] >= 1
           /\ ~HasOwnProperty(calls[i].loaded, calls[i].val)

====
